---- MODULE Spec2Model ----
(***************************************************************************)
(* Model of the Trainer of CartoonGan-tensorflow (src/train.py): the       *)
(* pretraining run (pretrain_generator), the adversarial run (train_gan)   *)
(* and the diagnostic export (_save_generated_images).                     *)
(*                                                                         *)
(* Tensors are abstracted: a batch is the position of the dataset iterator *)
(* it was fetched at, a parameter set is its origin plus the number of     *)
(* optimizer updates applied to it.                                        *)
(***************************************************************************)
EXTENDS Integers, Sequences, FiniteSets, TLC

\* ---- bounds of the model ------------------------------------------------
MaxBatch == 3
MaxSample == 16
MaxSteps == 5
MaxReport == 3

\* ---- program constants --------------------------------------------------
num_images_per_row == 8
gan_sample_size == 32
num_steps == 5000
reporting_steps == 100
ckpt_name == "generater_adv_training"
pretrained_name == "pretrain_generator_with_vgg"

PretrainNames == {"pretrain_generator", "pretrain_generator_with_vgg"}
CkptNames == PretrainNames \cup {ckpt_name}
Iterators == {"a", "b", "b_smooth"}

VARIABLES
    batch_size, sample_size, pretrain_num_steps, pretrain_reporting_steps,
    pretrain_generator_name,
    pc, exc, excAt,
    ckpts, params, pos,
    real_batches, fake_batches, batch_losses, step,
    saves, exports, openFigs, lastFig, lossLog, logged,
    loadAttempts, dBatchA, gBatchA

config == <<batch_size, sample_size, pretrain_num_steps,
            pretrain_reporting_steps, pretrain_generator_name>>
vars == <<batch_size, sample_size, pretrain_num_steps, pretrain_reporting_steps,
          pretrain_generator_name, pc, exc, excAt, ckpts, params, pos,
          real_batches, fake_batches, batch_losses, step, saves, exports,
          openFigs, lastFig, lossLog, logged, loadAttempts, dBatchA, gBatchA>>

\* ---- parameter sets and checkpoints -------------------------------------
NoCkpt == [base |-> "none", n |-> 0]
OldCkpt == [base |-> "ckpt", n |-> 0]
InitParams == [base |-> "init", n |-> 0]

\* sess.run(tf.global_variables_initializer())
GlobalVariablesInitializer == [net \in {"g", "d"} |-> InitParams]

\* g.load(sess, save_dir, name): restores the named checkpoint, raises
\* ValueError when there is none.
GLoad(store, name) ==
    IF store[name] = NoCkpt
    THEN [raised |-> TRUE, value |-> NoCkpt]
    ELSE [raised |-> FALSE, value |-> store[name]]

\* g.save(sess, save_dir, name): writes the generator's parameters.
GSave(store, name, value) == [store EXCEPT ![name] = value]

\* ---- the graph: which iterator a tensor pulls from ----------------------
RECURSIVE Needs(_, _)
Needs(t, feeds) ==
    IF t \in feeds THEN {}
    ELSE CASE t = "input_images" -> {"a"}
           [] t = "generated_images" -> Needs("input_images", feeds)
           [] t = "content_loss_pre" -> Needs("input_images", feeds)
                                        \cup Needs("generated_images", feeds)
           [] t = "train_op" -> Needs("content_loss_pre", feeds)
           [] t = "input_a" -> {"a"}
           [] t = "input_b" -> {"b"}
           [] t = "input_b_smooth" -> {"b_smooth"}
           [] t = "generated_b" -> Needs("input_a", feeds)
           [] t = "d_real_out" -> Needs("input_b", feeds)
           [] t = "d_fake_out" -> Needs("generated_b", feeds)
           [] t = "d_smooth_out" -> Needs("input_b_smooth", feeds)
           [] t = "content_loss" -> Needs("input_a", feeds)
                                    \cup Needs("generated_b", feeds)
           [] t = "d_loss" -> Needs("d_real_out", feeds)
                              \cup Needs("d_fake_out", feeds)
                              \cup Needs("d_smooth_out", feeds)
           [] t = "g_adversarial_loss" -> Needs("d_fake_out", feeds)
           [] t = "g_loss" -> Needs("g_adversarial_loss", feeds)
                              \cup Needs("content_loss", feeds)
           [] t = "g_train_op" -> Needs("g_loss", feeds)
           [] t = "d_train_op" -> Needs("d_loss", feeds)

\* One sess.run: every iterator some fetch needs yields its next batch once.
Pulled(fetches, feeds) == UNION {Needs(t, feeds) : t \in fetches}
SessRun(p, fetches, feeds) ==
    [it \in Iterators |-> IF it \in Pulled(fetches, feeds) THEN p[it] + 1 ELSE p[it]]

\* opt.minimize(loss, var_list=...): one update of the listed networks.
Minimize(ps, var_list) ==
    [net \in {"g", "d"} |->
        IF net \in var_list THEN [ps[net] EXCEPT !.n = @ + 1] ELSE ps[net]]

PretrainVarList == {"g"}
GVarList_both == {"g", "d"}
GVarList == {"g"}
DVarList == {"d"}

PretrainFetches == {"train_op", "content_loss_pre"}
DTrainFetches == {"d_train_op", "d_loss"}
GTrainFetches_dloss == {"g_train_op", "g_loss", "content_loss", "g_adversarial_loss", "d_loss"}
GTrainFetches == {"g_train_op", "g_loss", "content_loss", "g_adversarial_loss"}

\* ---- helpers ------------------------------------------------------------
\* int(sample_size / batch_size)
NumSampleBatches_ceil(S, B) == (S + B - 1) \div B
NumSampleBatches(S, B) == S \div B

\* if step and step % reporting_steps == 0
IsReportingStep_zero(s, every) == s % every = 0
IsReportingStep(s, every) == s # 0 /\ s % every = 0

\* np.concatenate(batches, axis=0).shape[0]
RECURSIVE ConcatLen(_)
ConcatLen(batches) ==
    IF batches = <<>> THEN 0
    ELSE Head(batches).size + ConcatLen(Tail(batches))

\* _save_generated_images(batch_x, image_name=...) for a batch of n images:
\* add_subplot(num_rows, num_images_per_row, i + 1) raises ValueError when
\* i + 1 exceeds num_rows * num_images_per_row, before savefig and close.
SaveGeneratedImages(n, hasName) ==
    LET rows == IF n >= num_images_per_row THEN n \div num_images_per_row ELSE 1
        bad == {i \in 0 .. n - 1 : i + 1 > rows * num_images_per_row}
    IN  [n |-> n,
         num_rows |-> rows,
         subplots |-> IF bad = {} THEN n ELSE rows * num_images_per_row,
         raised |-> bad # {},
         written |-> bad = {} /\ hasName,
         closed |-> bad = {}]

\* str.format: a named field with no keyword argument raises KeyError, an
\* automatic field beyond the positional arguments raises IndexError.
RECURSIVE FormatExc(_, _, _)
FormatExc(fields, nargs, kwargs) ==
    IF fields = <<>> THEN "none"
    ELSE IF Head(fields) = ""
         THEN IF nargs = 0 THEN "IndexError"
              ELSE FormatExc(Tail(fields), nargs - 1, kwargs)
         ELSE IF Head(fields) \notin kwargs THEN "KeyError"
              ELSE FormatExc(Tail(fields), nargs, kwargs)

\* "[Step {step}] batch_loss: {:.3f}, {} elapsed".format(batch_loss, elapsed)
StepLogExc == FormatExc(<<"step", "", "">>, 2, {})
\* res.format(step, d_batch_loss, g_batch_loss, g_content_loss, g_adv_loss, elapsed)
GanLogExc == FormatExc(<<"", "", "", "", "", "">>, 6, {})

\* f.write(step, '\t', batch_loss + '\n'): float + str is a TypeError, and
\* write takes one argument.
WriteExc(argTypes, leftType, rightType) ==
    IF leftType # rightType THEN "TypeError"
    ELSE IF Len(argTypes) # 1 THEN "TypeError"
    ELSE "none"
LossWriteExc == WriteExc(<<"int", "str", "float">>, "float", "str")

Ended == {"done", "raised"}

\* no call of _save_generated_images yet
NoFigure == [n |-> 0, num_rows |-> 0, subplots |-> 0, raised |-> FALSE,
             written |-> FALSE, closed |-> TRUE]

\* ---- initial states -----------------------------------------------------
InitRun ==
    /\ pc = "idle"
    /\ exc = "none"
    /\ excAt = "none"
    /\ params = GlobalVariablesInitializer
    /\ pos = [it \in Iterators |-> 0]
    /\ real_batches = <<>>
    /\ fake_batches = <<>>
    /\ batch_losses = <<>>
    /\ step = 0
    /\ saves = <<>>
    /\ exports = <<>>
    /\ openFigs = 0
    /\ lastFig = NoFigure
    /\ lossLog = <<>>
    /\ logged = {}
    /\ loadAttempts = 0
    /\ dBatchA = -1
    /\ gBatchA = -1

Init ==
    /\ batch_size \in 1 .. MaxBatch
    /\ sample_size \in 1 .. MaxSample
    /\ pretrain_num_steps \in 1 .. MaxSteps
    /\ pretrain_reporting_steps \in 1 .. MaxReport
    /\ pretrain_generator_name \in PretrainNames
    /\ \E present \in BOOLEAN :
         ckpts = [nm \in CkptNames |->
                    IF present /\ nm = pretrain_generator_name THEN OldCkpt ELSE NoCkpt]
    /\ InitRun

\* ---- pretrain_generator -------------------------------------------------
LoopNext(s, total, body) == IF s < total THEN body ELSE "done"

PretrainBegin ==
    /\ pc = "idle"
    /\ pc' = "load"
    /\ params' = GlobalVariablesInitializer
    /\ pos' = [it \in Iterators |-> 0]
    /\ batch_losses' = <<>>
    /\ UNCHANGED <<config, exc, excAt, ckpts, real_batches, fake_batches, step,
                   saves, exports, openFigs, lastFig, lossLog, logged, loadAttempts,
                   dBatchA, gBatchA>>

PretrainLoad_nocatch ==
    /\ pc = "load"
    /\ loadAttempts' = loadAttempts + 1
    /\ LET r == GLoad(ckpts, pretrain_generator_name)
       IN  IF r.raised
           THEN /\ pc' = "raised"
                /\ exc' = "ValueError"
                /\ excAt' = "load"
                /\ UNCHANGED <<params, logged>>
           ELSE /\ params' = [params EXCEPT !["g"] = r.value]
                /\ logged' = logged \cup {"loaded"}
                /\ pc' = "sample"
                /\ UNCHANGED <<exc, excAt>>
    /\ UNCHANGED <<config, ckpts, pos, real_batches, fake_batches, batch_losses,
                   step, saves, exports, openFigs, lastFig, lossLog, dBatchA, gBatchA>>

PretrainLoad ==
    /\ pc = "load"
    /\ loadAttempts' = loadAttempts + 1
    /\ LET r == GLoad(ckpts, pretrain_generator_name)
       IN  IF r.raised
           THEN /\ logged' = logged \cup {"not_found"}
                /\ UNCHANGED params
           ELSE /\ params' = [params EXCEPT !["g"] = r.value]
                /\ logged' = logged \cup {"loaded"}
    /\ pc' = "sample"
    /\ UNCHANGED <<config, exc, excAt, ckpts, pos, real_batches, fake_batches,
                   batch_losses, step, saves, exports, openFigs, lastFig, lossLog,
                   dBatchA, gBatchA>>

PretrainSample ==
    /\ pc = "sample"
    /\ Len(real_batches) < NumSampleBatches(sample_size, batch_size)
    /\ real_batches' = Append(real_batches, [pos |-> pos["a"], size |-> batch_size])
    /\ pos' = SessRun(pos, {"input_images"}, {})
    /\ UNCHANGED <<config, pc, exc, excAt, ckpts, params, fake_batches,
                   batch_losses, step, saves, exports, openFigs, lastFig, lossLog, logged,
                   loadAttempts, dBatchA, gBatchA>>

\* the export of the sampled batches, shared by both runs
ExportSample(image, wanted, total, body) ==
    /\ pc = "sample"
    /\ Len(real_batches) >= NumSampleBatches(wanted, batch_size)
    /\ IF real_batches = <<>>
       THEN /\ pc' = "raised"
            /\ exc' = "ValueError"
            /\ excAt' = "concatenate"
            /\ UNCHANGED <<exports, openFigs, lastFig>>
       ELSE LET r == SaveGeneratedImages(ConcatLen(real_batches), TRUE)
            IN  IF r.raised
                THEN /\ pc' = "raised"
                     /\ exc' = "ValueError"
                     /\ excAt' = "export"
                     /\ openFigs' = openFigs + 1
                     /\ lastFig' = r
                     /\ UNCHANGED exports
                ELSE /\ exports' = Append(exports, [image |-> image, step |-> 0, n |-> r.n])
                     /\ pc' = LoopNext(0, total, body)
                     /\ lastFig' = r
                     /\ UNCHANGED <<exc, excAt, openFigs>>
    /\ step' = 0
    /\ UNCHANGED <<config, ckpts, params, pos, real_batches, fake_batches,
                   batch_losses, saves, lossLog, logged, loadAttempts,
                   dBatchA, gBatchA>>

PretrainExportSample ==
    ExportSample("sample_images", sample_size, pretrain_num_steps, "train")

PretrainStep ==
    /\ pc = "train"
    /\ pos' = SessRun(pos, PretrainFetches, {})
    /\ params' = Minimize(params, PretrainVarList)
    /\ batch_losses' = Append(batch_losses, step)
    /\ IF IsReportingStep(step, pretrain_reporting_steps)
       THEN /\ pc' = "report"
            /\ UNCHANGED step
       ELSE /\ step' = step + 1
            /\ pc' = LoopNext(step + 1, pretrain_num_steps, "train")
    /\ UNCHANGED <<config, exc, excAt, ckpts, real_batches, fake_batches, saves,
                   exports, openFigs, lastFig, lossLog, logged, loadAttempts,
                   dBatchA, gBatchA>>

\* fake_batches.append(sess.run(generated, {input: real_batch})) for each batch
Regenerate(batches, gen) ==
    [i \in 1 .. Len(batches) |-> [from |-> batches[i], size |-> batches[i].size, gen |-> gen]]

PretrainReport ==
    /\ pc = "report"
    /\ pos' = SessRun(pos, {"generated_images"}, {"input_images"})
    /\ fake_batches' = Regenerate(real_batches, params["g"])
    /\ ckpts' = GSave(ckpts, pretrain_generator_name, params["g"])
    /\ saves' = Append(saves, [name |-> pretrain_generator_name, step |-> step,
                               g |-> params["g"].n, d |-> params["d"].n])
    /\ LET r == SaveGeneratedImages(ConcatLen(fake_batches'), TRUE)
       IN  IF r.raised
           THEN /\ pc' = "raised"
                /\ exc' = "ValueError"
                /\ excAt' = "export"
                /\ openFigs' = openFigs + 1
                /\ lastFig' = r
                /\ UNCHANGED <<exports, logged, lossLog, step>>
           ELSE /\ exports' = Append(exports, [image |-> "generated_images_at_step",
                                               step |-> step, n |-> r.n])
                /\ UNCHANGED openFigs
                /\ lastFig' = r
                /\ IF StepLogExc # "none"
                   THEN /\ pc' = "raised"
                        /\ exc' = StepLogExc
                        /\ excAt' = "log"
                        /\ UNCHANGED <<logged, lossLog, step>>
                   ELSE /\ logged' = logged \cup {"step"}
                        /\ IF LossWriteExc # "none"
                           THEN /\ pc' = "raised"
                                /\ exc' = LossWriteExc
                                /\ excAt' = "write"
                                /\ UNCHANGED <<lossLog, step>>
                           ELSE /\ lossLog' = Append(lossLog, [step |-> step,
                                                    loss |-> batch_losses[Len(batch_losses)]])
                                /\ step' = step + 1
                                /\ pc' = LoopNext(step + 1, pretrain_num_steps, "train")
                                /\ UNCHANGED <<exc, excAt>>
    /\ UNCHANGED <<config, params, real_batches, batch_losses, loadAttempts,
                   dBatchA, gBatchA>>

Next ==
    \/ PretrainBegin
    \/ PretrainLoad
    \/ PretrainSample
    \/ PretrainExportSample
    \/ PretrainStep
    \/ PretrainReport

Spec == Init /\ [][Next]_vars

\* ---- train_gan ----------------------------------------------------------
InitGan ==
    /\ batch_size \in 1 .. MaxBatch
    /\ sample_size = MaxSample
    /\ pretrain_num_steps \in 1 .. MaxSteps
    /\ pretrain_reporting_steps = MaxReport
    /\ pretrain_generator_name = "pretrain_generator"
    /\ \E pre \in BOOLEAN, adv \in BOOLEAN :
         ckpts = [nm \in CkptNames |->
                    IF (pre /\ nm = pretrained_name) \/ (adv /\ nm = ckpt_name)
                    THEN OldCkpt ELSE NoCkpt]
    /\ InitRun

GanBegin ==
    /\ pc = "idle"
    /\ pc' = "load"
    /\ params' = GlobalVariablesInitializer
    /\ pos' = [it \in Iterators |-> 0]
    /\ UNCHANGED <<config, exc, excAt, ckpts, real_batches, fake_batches,
                   batch_losses, step, saves, exports, openFigs, lastFig, lossLog, logged,
                   loadAttempts, dBatchA, gBatchA>>

GanLoad_caught ==
    /\ pc = "load"
    /\ loadAttempts' = loadAttempts + 1
    /\ LET r == GLoad(ckpts, pretrained_name)
       IN  IF r.raised
           THEN /\ logged' = logged \cup {"not_found"}
                /\ UNCHANGED params
           ELSE /\ params' = [params EXCEPT !["g"] = r.value]
                /\ UNCHANGED logged
    /\ pc' = "sample"
    /\ UNCHANGED <<config, exc, excAt, ckpts, pos, real_batches, fake_batches,
                   batch_losses, step, saves, exports, openFigs, lastFig, lossLog,
                   dBatchA, gBatchA>>

GanLoad ==
    /\ pc = "load"
    /\ loadAttempts' = loadAttempts + 1
    /\ LET r == GLoad(ckpts, pretrained_name)
       IN  IF r.raised
           THEN /\ pc' = "raised"
                /\ exc' = "ValueError"
                /\ excAt' = "load"
                /\ UNCHANGED params
           ELSE /\ params' = [params EXCEPT !["g"] = r.value]
                /\ pc' = "sample"
                /\ UNCHANGED <<exc, excAt>>
    /\ UNCHANGED <<config, ckpts, pos, real_batches, fake_batches, batch_losses,
                   step, saves, exports, openFigs, lastFig, lossLog, logged,
                   dBatchA, gBatchA>>

GanSample ==
    /\ pc = "sample"
    /\ Len(real_batches) < NumSampleBatches(gan_sample_size, batch_size)
    /\ real_batches' = Append(real_batches, [pos |-> pos["a"], size |-> batch_size])
    /\ pos' = SessRun(pos, {"input_a"}, {})
    /\ UNCHANGED <<config, pc, exc, excAt, ckpts, params, fake_batches,
                   batch_losses, step, saves, exports, openFigs, lastFig, lossLog, logged,
                   loadAttempts, dBatchA, gBatchA>>

GanExportSample ==
    ExportSample("sampled_images", gan_sample_size, num_steps, "update_d")

\* the source batch one sess.run consumes (-1: none)
SourceBatch(p, fetches) == IF "a" \in Pulled(fetches, {}) THEN p["a"] ELSE -1

GanUpdateD ==
    /\ pc = "update_d"
    /\ pos' = SessRun(pos, DTrainFetches, {})
    /\ params' = Minimize(params, DVarList)
    /\ dBatchA' = SourceBatch(pos, DTrainFetches)
    /\ pc' = "update_g"
    /\ UNCHANGED <<config, exc, excAt, ckpts, real_batches, fake_batches,
                   batch_losses, step, saves, exports, openFigs, lastFig, lossLog, logged,
                   loadAttempts, gBatchA>>

GanUpdateG ==
    /\ pc = "update_g"
    /\ pos' = SessRun(pos, GTrainFetches, {})
    /\ params' = Minimize(params, GVarList)
    /\ gBatchA' = SourceBatch(pos, GTrainFetches)
    /\ IF IsReportingStep(step, reporting_steps)
       THEN /\ pc' = "report"
            /\ UNCHANGED step
       ELSE /\ step' = step + 1
            /\ pc' = LoopNext(step + 1, num_steps, "update_d")
    /\ UNCHANGED <<config, exc, excAt, ckpts, real_batches, fake_batches,
                   batch_losses, saves, exports, openFigs, lastFig, lossLog, logged,
                   loadAttempts, dBatchA>>

GanReport ==
    /\ pc = "report"
    /\ pos' = SessRun(pos, {"generated_b"}, {"input_a"})
    /\ fake_batches' = Regenerate(real_batches, params["g"])
    /\ ckpts' = GSave(ckpts, ckpt_name, params["g"])
    /\ saves' = Append(saves, [name |-> ckpt_name, step |-> step,
                               g |-> params["g"].n, d |-> params["d"].n])
    /\ LET r == SaveGeneratedImages(ConcatLen(fake_batches'), TRUE)
       IN  IF r.raised
           THEN /\ pc' = "raised"
                /\ exc' = "ValueError"
                /\ excAt' = "export"
                /\ openFigs' = openFigs + 1
                /\ lastFig' = r
                /\ UNCHANGED <<exports, logged, step>>
           ELSE /\ exports' = Append(exports, [image |-> "gan_images_at_step",
                                               step |-> step, n |-> r.n])
                /\ UNCHANGED openFigs
                /\ lastFig' = r
                /\ IF GanLogExc # "none"
                   THEN /\ pc' = "raised"
                        /\ exc' = GanLogExc
                        /\ excAt' = "log"
                        /\ UNCHANGED <<logged, step>>
                   ELSE /\ logged' = logged \cup {"step"}
                        /\ step' = step + 1
                        /\ pc' = LoopNext(step + 1, num_steps, "update_d")
                        /\ UNCHANGED <<exc, excAt>>
    /\ UNCHANGED <<config, params, real_batches, batch_losses, lossLog,
                   loadAttempts, dBatchA, gBatchA>>

NextGan ==
    \/ GanBegin
    \/ GanLoad
    \/ GanSample
    \/ GanExportSample
    \/ GanUpdateD
    \/ GanUpdateG
    \/ GanReport

SpecGan == InitGan /\ [][NextGan]_vars

\* ======================= properties of pretrain_generator =================
\* the reporting steps of a run of N steps reporting every R steps
ReportingSteps(N, R) == {s \in 0 .. N - 1 : s > 0 /\ s % R = 0}
StepsOf(records) == {records[i].step : i \in 1 .. Len(records)}
GeneratedExports == SelectSeq(exports, LAMBDA e : e.image = "generated_images_at_step")
\* the run is over and had entered its training loop
LoopEnded == pc \in Ended /\ batch_losses # <<>>
InClaimRange == 1 <= batch_size /\ batch_size <= sample_size

\* C1: when a pretraining run is over, the Generator checkpoint was saved and
\* the generated-image grid exported exactly once at every step s with
\* 0 < s < N and s mod R = 0, and at no other step.
C1_SaveAndExportAtEveryReportingStep ==
    LoopEnded =>
        LET want == ReportingSteps(pretrain_num_steps, pretrain_reporting_steps)
        IN  /\ StepsOf(saves) = want
            /\ Len(saves) = Cardinality(want)
            /\ StepsOf(GeneratedExports) = want
            /\ Len(GeneratedExports) = Cardinality(want)

\* C2: when a pretraining run is over, result/batch_losses.tsv holds exactly
\* one well-formed record <step, loss> per reporting step, in increasing
\* step order.
C2_OneLossRecordPerReportingStep ==
    LoopEnded =>
        LET want == ReportingSteps(pretrain_num_steps, pretrain_reporting_steps)
        IN  /\ Len(lossLog) = Cardinality(want)
            /\ StepsOf(lossLog) = want
            /\ \A i \in 1 .. Len(lossLog) :
                 /\ lossLog[i].loss = batch_losses[lossLog[i].step + 1]
                 /\ i > 1 => lossLog[i - 1].step < lossLog[i].step

\* C3: a pretraining run that entered its training loop ends only by
\* exhausting its step budget: it returns normally after the optimizer steps
\* 0 .. N-1, taken in increasing order.
C3_RunEndsOnlyByStepBudget ==
    LoopEnded =>
        /\ pc = "done"
        /\ exc = "none"
        /\ batch_losses = [i \in 1 .. pretrain_num_steps |-> i - 1]
        /\ params["g"].n = pretrain_num_steps

\* C9: once a call of _save_generated_images has ended, no figure is left
\* open: each of the n images got a cell i+1 within the rows x 8 grid, the
\* image file is written and the figure is closed.
C9_NoFigureLeftOpen ==
    /\ openFigs = 0
    /\ lastFig.n >= 1 =>
         /\ lastFig.subplots = lastFig.n
         /\ lastFig.n <= lastFig.num_rows * 8
         /\ lastFig.written
         /\ lastFig.closed

\* C4: for 1 <= B <= S the sample batches are the first floor(S/B) batches of
\* the stream, all drawn before the first training step, B images each
\* (B*floor(S/B) in all), the list stays exactly that for the rest of the run,
\* and a reporting step regenerates its outputs from exactly these batches.
C4_FixedSampleBatches ==
    InClaimRange =>
        LET k == Len(real_batches)
        IN  /\ pc \in {"idle", "load", "sample"} =>
                 /\ batch_losses = <<>>
                 /\ params["g"].n = 0
                 /\ k * batch_size <= sample_size
            /\ pc \notin {"idle", "load", "sample"} =>
                 /\ k * batch_size <= sample_size
                 /\ sample_size < (k + 1) * batch_size
                 /\ ConcatLen(real_batches) = batch_size * k
            /\ \A i \in 1 .. k : real_batches[i] = [pos |-> i - 1, size |-> batch_size]
            /\ fake_batches # <<>> =>
                 /\ Len(fake_batches) = k
                 /\ \A i \in 1 .. k : fake_batches[i].from = real_batches[i]

C4_Witness ==
    /\ batch_size = 2
    /\ sample_size = 5
    /\ Len(real_batches) = 2
    /\ fake_batches # <<>>
    /\ saves # <<>>

\* C5: when the restore finds no checkpoint, the failure does not raise out
\* of pretrain_generator: it is logged, the Generator keeps its freshly
\* initialized parameters (only optimizer steps change them), and the run
\* goes on to sampling and from there to the training steps; a run that ends
\* before its first training step was stopped by the export of the sampled
\* images, never by the restore.
RestoreFailed == loadAttempts >= 1 /\ "loaded" \notin logged
C5_MissingCheckpointIsNotFatal ==
    /\ (pc = "sample" /\ real_batches = <<>>) =>
         (ckpts[pretrain_generator_name] = NoCkpt <=> RestoreFailed)
    /\ RestoreFailed =>
         /\ "not_found" \in logged
         /\ excAt # "load"
         /\ params["g"] = [base |-> "init", n |-> Len(batch_losses)]
         /\ pc \in {"sample", "train", "report", "done", "raised"}
         /\ pc \in {"train", "report", "done"} =>
                Len(real_batches) = NumSampleBatches(sample_size, batch_size)
         /\ (pc = "raised" /\ batch_losses = <<>>) => excAt \in {"concatenate", "export"}

C5_Witness ==
    /\ RestoreFailed
    /\ "not_found" \in logged
    /\ Len(real_batches) >= 2
    /\ Len(batch_losses) >= 2
    /\ params["g"] = [base |-> "init", n |-> 2]

\* ======================= properties of train_gan ==========================
dUpdates == params["d"].n
gUpdates == params["g"].n

\* C6: the pretrained checkpoint is loaded before any sampling or training,
\* and when it is missing the ValueError of the load ends the run: no
\* discriminator update, no generator update, no sample drawn or exported,
\* nothing saved under the adversarial name.
C6_MissingPretrainedCheckpointIsFatal ==
    /\ pc \in {"idle", "load"} =>
         /\ real_batches = <<>>
         /\ exports = <<>>
         /\ dUpdates = 0 /\ gUpdates = 0
         /\ pos = [it \in Iterators |-> 0]
    /\ pc \notin {"idle", "load"} => loadAttempts = 1
    /\ (loadAttempts >= 1 /\ ckpts[pretrained_name] = NoCkpt) =>
         /\ pc = "raised"
         /\ exc = "ValueError"
         /\ excAt = "load"
         /\ dUpdates = 0 /\ gUpdates = 0
         /\ real_batches = <<>>
         /\ exports = <<>>
         /\ lastFig = NoFigure
         /\ saves = <<>>
         /\ params["g"] = InitParams

C6_Witness ==
    /\ pc = "raised"
    /\ excAt = "load"
    /\ loadAttempts = 1
    /\ ckpts[pretrained_name] = NoCkpt

\* C7: every step of train_gan makes one discriminator update and then one
\* generator update: step k's discriminator update is done before its
\* generator update starts, and that one before step k+1's discriminator
\* update; an update changes the parameters of its own network only.
C7_StepOrder ==
    /\ pc = "update_d" => dUpdates = step /\ gUpdates = step
    /\ pc = "update_g" => dUpdates = step + 1 /\ gUpdates = step
    /\ pc = "report" => dUpdates = step + 1 /\ gUpdates = step + 1
    /\ pc = "done" => dUpdates = step /\ gUpdates = step
    /\ gUpdates <= dUpdates /\ dUpdates <= gUpdates + 1
    /\ params["d"].base = "init"
C7_OwnParametersOnly ==
    /\ params["d"]' # params["d"] =>
         /\ pc = "update_d" /\ pc' = "update_g"
         /\ params["g"]' = params["g"]
         /\ params["d"]' = [params["d"] EXCEPT !.n = @ + 1]
    /\ (params["g"]' # params["g"] /\ pc # "load") =>
         /\ pc = "update_g" /\ pc' # "update_g"
         /\ params["d"]' = params["d"]
         /\ params["g"]' = [params["g"] EXCEPT !.n = @ + 1]
C7_DiscriminatorThenGenerator == []C7_StepOrder /\ [][C7_OwnParametersOnly]_vars

C7_Witness ==
    /\ pc = "update_g"
    /\ step = 3
    /\ dUpdates = 4
    /\ gUpdates = 3

\* C8: train_gan takes exactly 5000 steps whatever pretrain_num_steps is; it
\* saves the Generator under the adversarial name, never under a pretraining
\* name, exactly at the steps s with 0 < s < 5000 and s mod 100 = 0; each save
\* holds the parameters after both updates of step s and before any update of
\* step s+1.
C8_FixedStepsAndSavesBetweenSteps ==
    /\ step <= 5000
    /\ pc = "done" => step = 5000 /\ dUpdates = 5000 /\ gUpdates = 5000
    /\ pc = "raised" => dUpdates = 0 /\ gUpdates = 0
    /\ Len(saves) = IF step = 0 THEN 0
                    ELSE IF pc = "report" THEN step \div 100 - 1
                    ELSE (step - 1) \div 100
    /\ \A i \in 1 .. Len(saves) :
         /\ saves[i].step = 100 * i
         /\ saves[i].step < 5000
         /\ saves[i].name = "generater_adv_training"
         /\ saves[i].name \notin {pretrained_name, pretrain_generator_name}
         /\ saves[i].d = saves[i].step + 1
         /\ saves[i].g = saves[i].step + 1
    /\ saves # <<>> =>
         ckpts["generater_adv_training"] =
             [base |-> "ckpt", n |-> saves[Len(saves)].step + 1]
    /\ (pc \notin {"idle", "load", "raised"}) => ckpts[pretrained_name] = OldCkpt

C8_Witness ==
    /\ pc = "done"
    /\ Len(saves) = 49
    /\ saves[49].step = 4900
    /\ pretrain_num_steps = 2

\* C10: the two updates of a step are two graph executions with their own
\* next batches: a step takes two batches from the source stream and one from
\* each of the target and smoothed-target streams, the generator update runs
\* on the source batch after the one the discriminator update used, and a
\* reporting step's regeneration from the sample batches advances no stream
\* and changes no parameter.
C10_TwoFetchesPerStep ==
    /\ pos["a"] = Len(real_batches) + dUpdates + gUpdates
    /\ pos["b"] = dUpdates
    /\ pos["b_smooth"] = dUpdates
    /\ dUpdates >= 1 => dBatchA = Len(real_batches) + 2 * (dUpdates - 1)
    /\ gUpdates >= 1 => gBatchA = Len(real_batches) + 2 * (gUpdates - 1) + 1
    /\ (gUpdates >= 1 /\ dUpdates = gUpdates) => gBatchA = dBatchA + 1
    /\ pc = "update_d" => dUpdates = step /\ gUpdates = step
    /\ fake_batches # <<>> =>
         /\ Len(fake_batches) = Len(real_batches)
         /\ \A i \in 1 .. Len(fake_batches) :
              /\ fake_batches[i].from = real_batches[i]
              /\ fake_batches[i].gen = ckpts[ckpt_name]

C10_Witness ==
    /\ pc = "update_d"
    /\ step = 101
    /\ Len(saves) = 1
    /\ fake_batches # <<>>
    /\ pos["a"] = Len(real_batches) + 202
    /\ pos["b"] = 101

====
